---- MODULE Spec2Model ----
(***************************************************************************)
(* A model of function_app.py: the daily portfolio review pipeline         *)
(* (load -> prompt -> model call -> parse -> render -> cost -> send) with  *)
(* its timer and HTTP triggers, the response parser and the HTML report    *)
(* renderer.                                                               *)
(*                                                                         *)
(* Python values are tagged records [t, v]:                                *)
(*   None            [t |-> "none", v |-> 0]                               *)
(*   int             [t |-> "num",  v |-> n]                               *)
(*   str             [t |-> "str",  v |-> "text"]                          *)
(*   list            [t |-> "list", v |-> <<value, ...>>]                  *)
(*   dict            [t |-> "dict", v |-> <<[k |-> key, v |-> value], ...>>]*)
(*   other object    [t |-> "obj",  v |-> <<[k |-> attribute, v |-> value]>>]*)
(* A dict keeps its keys in insertion order, as Python's does.             *)
(***************************************************************************)
EXTENDS Integers, Sequences, FiniteSets, TLC

VARIABLES
  pc,                \* position of the running invocation in the code
  stage,             \* pipeline state of section 4.5 of the specification
  trigger,           \* "http" | "timer" | "none" (a bare function call)
  is_dev,            \* AZURE_FUNCTIONS_ENVIRONMENT == "Development"
  telemetry_client,  \* TRUE iff a TelemetryClient was constructed at import
  result,            \* what kernel.invoke_prompt returned: [value, usage]
  output_json,       \* the response text handed to parse_result_to_json
  parsed_json,       \* the value parse_result_to_json returned
  output_html,       \* the lines render_html_report returned
  tokens,            \* <<prompt_tokens, completion_tokens>>
  total_cost,        \* estimated cost in units of 0.0001 dollar
  exc,               \* the exception in flight ("none" when there is none)
  calls,             \* how often each external service / step was entered
  outbox,            \* the emails the delivery service accepted
  response           \* what the invocation gave back to the platform

vars == <<pc, stage, trigger, is_dev, telemetry_client, result, output_json,
          parsed_json, output_html, tokens, total_cost, exc, calls, outbox,
          response>>

-----------------------------------------------------------------------------
(* Python values and the built-in operations the program applies to them.  *)

None == [t |-> "none", v |-> 0]
Num(n) == [t |-> "num", v |-> n]
Str(s) == [t |-> "str", v |-> s]
List(s) == [t |-> "list", v |-> s]
Dict(s) == [t |-> "dict", v |-> s]
Pair(k, x) == [k |-> k, v |-> x]

\* The characters of the strings the model iterates over.
StrChars(s) ==
  CASE s = "" -> <<>>
    [] s = "x" -> <<"x">>
    [] s = "ab" -> <<"a", "b">>

\* bool(x)
Truthy(x) ==
  CASE x.t = "none" -> FALSE
    [] x.t = "num" -> x.v # 0
    [] x.t = "str" -> x.v # ""
    [] x.t = "list" -> Len(x.v) > 0
    [] x.t = "dict" -> Len(x.v) > 0
    [] x.t = "obj" -> TRUE

\* isinstance(x, dict); only a dict has a .get method
IsDict(x) == x.t = "dict"

HasKey(d, k) == \E i \in 1..Len(d.v) : d.v[i].k = k

\* d.get(k, default) for a dict d
Get(d, k, default) ==
  IF HasKey(d, k)
  THEN d.v[CHOOSE i \in 1..Len(d.v) : d.v[i].k = k].v
  ELSE default

\* the values of type that a for loop can run over
Iterable(x) == x.t \in {"str", "list", "dict"}

\* the elements a for loop over x visits, in order
Iter(x) ==
  CASE x.t = "list" -> x.v
    [] x.t = "dict" -> [i \in 1..Len(x.v) |-> Str(x.v[i].k)]
    [] x.t = "str" -> [i \in 1..Len(StrChars(x.v)) |-> Str(StrChars(x.v)[i])]

\* str(x) inside an f-string: None prints as the text None, a str as itself;
\* the repr of a number or a container is kept as the value itself
PyStr(x) == IF x.t = "none" THEN Str("None") ELSE x

RECURSIVE Concat(_)
Concat(ss) == IF ss = <<>> THEN <<>> ELSE Head(ss) \o Concat(Tail(ss))

-----------------------------------------------------------------------------
(* render_html_report.  The report is the sequence of the lines that are   *)
(* joined with "\n"; a line is [tag, args], args the interpolated values.  *)

Line(tag, args) == [tag |-> tag, args |-> args]

ErrorNotice == Line("error_notice", <<>>)
RecsHeading == Line("h2_recs", <<>>)
AnalysisHeading == Line("hr_h2_analysis", <<>>)
UlOpen == Line("ul", <<>>)
UlClose == Line("/ul", <<>>)

\* the (action, label, color) triples of the loop, in the order of the code
ActionTable ==
  << [action |-> "buy", label |-> "Dokupienie", color |-> "green"],
     [action |-> "buy-new", label |-> "Kupno", color |-> "green"],
     [action |-> "sell", label |-> "Sprzedaz", color |-> "red"],
     [action |-> "hold", label |-> "Przetrzymanie", color |-> "gray"] >>

\* the outcome of a piece of code: it raised, or it appended these lines
Raised == [raised |-> TRUE, html |-> <<>>]
Lines(ls) == [raised |-> FALSE, html |-> ls]

\* run the pieces in order; the first one that raises ends the function
RECURSIVE Chain(_)
Chain(rs) ==
  IF rs = <<>> THEN Lines(<<>>)
  ELSE IF Head(rs).raised THEN Raised
  ELSE LET rest == Chain(Tail(rs))
       IN IF rest.raised THEN Raised ELSE Lines(Head(rs).html \o rest.html)

\* one <li> of a recommendation; rec.get needs rec to be a dict
RecItem(rec) ==
  IF ~IsDict(rec) THEN Raised
  ELSE Lines(<< Line("li_rec", << PyStr(Get(rec, "company", None)),
                                  PyStr(Get(rec, "symbol", None)),
                                  PyStr(Get(rec, "reason", None)) >>) >>)

\* the body of the loop over the action table, for one entry of it
RenderAction(data, a) ==
  LET recs == Get(data, "recommendations", Dict(<<>>))
  IN IF ~IsDict(recs) THEN Raised
     ELSE LET items == Get(recs, a.action, List(<<>>))
          IN IF ~Truthy(items) THEN Lines(<<>>)
             ELSE IF ~Iterable(items) THEN Raised
             ELSE Chain(<< Lines(<< Line("h3_rec", <<Str(a.color), Str(a.label)>>),
                                    UlOpen >>) >>
                        \o [i \in 1..Len(Iter(items)) |-> RecItem(Iter(items)[i])]
                        \o << Lines(<<UlClose>>) >>)

\* the action table visited in the order of the keys of the input (a loop
\* over data["recommendations"] instead of over the fixed list)
ActionOrderOfInput(data) ==
  LET recs == Get(data, "recommendations", Dict(<<>>))
      keys == IF IsDict(recs) THEN [i \in 1..Len(recs.v) |-> recs.v[i].k] ELSE <<>>
      Known(k) == \E i \in 1..Len(ActionTable) : ActionTable[i].action = k
      Entry(k) == ActionTable[CHOOSE i \in 1..Len(ActionTable) : ActionTable[i].action = k]
      Named(a) == \E i \in 1..Len(keys) : keys[i] = a.action
      present == SelectSeq(keys, Known)
  IN [i \in 1..Len(present) |-> Entry(present[i])]
     \o SelectSeq(ActionTable, LAMBDA a : ~Named(a))

\* the order in which the loop visits the action table
ActionOrder(data) == ActionTable

RenderRecommendations(data) ==
  Chain([i \in 1..Len(ActionOrder(data)) |-> RenderAction(data, ActionOrder(data)[i])])

\* one block of the analysis section
RenderStock(stock) ==
  IF ~IsDict(stock) THEN Raised
  ELSE LET hl == Get(stock, "highlights", List(<<>>))
       IN IF ~Iterable(hl) THEN Raised
          ELSE Lines(<< Line("h3_stock", << PyStr(Get(stock, "company", None)),
                                            PyStr(Get(stock, "symbol", None)) >>),
                        UlOpen >>
                     \o [i \in 1..Len(Iter(hl)) |-> Line("li", <<PyStr(Iter(hl)[i])>>)]
                     \o <<UlClose>>)

RenderAnalysis(data) ==
  LET an == Get(data, "analysis", List(<<>>))
  IN IF ~Iterable(an) THEN Raised
     ELSE Chain([i \in 1..Len(Iter(an)) |-> RenderStock(Iter(an)[i])])

RenderNotes(data) ==
  LET notes == Get(data, "notes", None)
  IN IF Truthy(notes) THEN Lines(<<Line("notes", <<PyStr(notes)>>)>>) ELSE Lines(<<>>)

\* the guard without its emptiness test
InvalidDataTypeOnly(data) == ~IsDict(data)

\* the guard at the top of render_html_report
InvalidData(data) == ~Truthy(data) \/ ~IsDict(data)

render_html_report(data) ==
  IF InvalidData(data) THEN Lines(<<ErrorNotice>>)
  ELSE Chain(<< Lines(<<RecsHeading>>),
                RenderRecommendations(data),
                Lines(<<AnalysisHeading>>),
                RenderAnalysis(data),
                RenderNotes(data) >>)

-----------------------------------------------------------------------------
(* Text.  A text is a sequence of symbols [c, s]: a single character       *)
(* (c = "ch"), or a lexeme that the JSON scanner reads as one unit: a      *)
(* string literal with content s (c = "str") or the keyword null           *)
(* (c = "kw").  No lexeme begins or ends with a backtick or a blank.       *)

Ch(c) == [c |-> "ch", s |-> c]
Lit(s) == [c |-> "str", s |-> s]
Null == [c |-> "kw", s |-> "null"]
Cs(cs) == [i \in 1..Len(cs) |-> Ch(cs[i])]

\* the backtick character (a string of the model cannot hold it)
Backtick == Ch("backtick")

\* the markers "```" and "```json"
Fence == <<Backtick, Backtick, Backtick>>
FenceJson == Fence \o Cs(<<"j", "s", "o", "n">>)

\* the characters str.strip() removes and json.loads skips
Whitespace == {Ch(" "), Ch("\n")}

RECURSIVE LStrip(_)
LStrip(s) == IF s # <<>> /\ Head(s) \in Whitespace THEN LStrip(Tail(s)) ELSE s

RECURSIVE RStrip(_)
RStrip(s) ==
  IF s # <<>> /\ s[Len(s)] \in Whitespace THEN RStrip(SubSeq(s, 1, Len(s) - 1)) ELSE s

\* s.strip()
Strip(s) == RStrip(LStrip(s))

\* s.startswith(p), s.endswith(p)
StartsWith(s, p) == Len(s) >= Len(p) /\ SubSeq(s, 1, Len(p)) = p
EndsWith(s, p) == Len(s) >= Len(p) /\ SubSeq(s, Len(s) - Len(p) + 1, Len(s)) = p

\* s[n:] and s[:-n]
DropFirst(s, n) == SubSeq(s, n + 1, Len(s))
DropLast(s, n) == SubSeq(s, 1, Len(s) - n)

-----------------------------------------------------------------------------
(* json.loads, for the JSON values built from objects, arrays, string      *)
(* literals, the digits 0 and 1 and null.                                  *)

Digits == {Ch("0"), Ch("1")}
DigitValue(d) == IF d = Ch("1") THEN 1 ELSE 0

Parsed(x, next) == [ok |-> TRUE, v |-> x, next |-> next]
ParseError == [ok |-> FALSE, v |-> None, next |-> 0]

RECURSIVE SkipWs(_, _)
SkipWs(s, i) == IF i <= Len(s) /\ s[i] \in Whitespace THEN SkipWs(s, i + 1) ELSE i

\* d[k] = x on the pairs of a dict: a repeated key keeps its place
DictSet(pairs, k, x) ==
  IF \E i \in 1..Len(pairs) : pairs[i].k = k
  THEN [i \in 1..Len(pairs) |-> IF pairs[i].k = k THEN Pair(k, x) ELSE pairs[i]]
  ELSE Append(pairs, Pair(k, x))

\* the digits of a number from position i on, most significant first
RECURSIVE ParseDigits(_, _, _)
ParseDigits(s, i, acc) ==
  IF i <= Len(s) /\ s[i] \in Digits
  THEN ParseDigits(s, i + 1, acc * 10 + DigitValue(s[i]))
  ELSE Parsed(Num(acc), i)

RECURSIVE ParseValue(_, _)
RECURSIVE ParseMembers(_, _, _)
RECURSIVE ParseElements(_, _, _)

\* the members of an object; i is at the first symbol of the next key
ParseMembers(s, i, acc) ==
  IF i > Len(s) \/ s[i].c # "str" THEN ParseError
  ELSE LET c == SkipWs(s, i + 1)
       IN IF c > Len(s) \/ s[c] # Ch(":") THEN ParseError
          ELSE LET pv == ParseValue(s, c + 1)
               IN IF ~pv.ok THEN ParseError
                  ELSE LET e == SkipWs(s, pv.next)
                           acc2 == DictSet(acc, s[i].s, pv.v)
                       IN IF e > Len(s) THEN ParseError
                          ELSE IF s[e] = Ch("}") THEN Parsed(Dict(acc2), e + 1)
                          ELSE IF s[e] = Ch(",")
                               THEN ParseMembers(s, SkipWs(s, e + 1), acc2)
                          ELSE ParseError

\* the elements of an array; the next value starts at or after i
ParseElements(s, i, acc) ==
  LET pv == ParseValue(s, i)
  IN IF ~pv.ok THEN ParseError
     ELSE LET e == SkipWs(s, pv.next)
              acc2 == Append(acc, pv.v)
          IN IF e > Len(s) THEN ParseError
             ELSE IF s[e] = Ch("]") THEN Parsed(List(acc2), e + 1)
             ELSE IF s[e] = Ch(",") THEN ParseElements(s, e + 1, acc2)
             ELSE ParseError

ParseValue(s, i) ==
  LET j == SkipWs(s, i)
  IN IF j > Len(s) THEN ParseError
     ELSE IF s[j] = Ch("{")
          THEN LET k == SkipWs(s, j + 1)
               IN IF k <= Len(s) /\ s[k] = Ch("}")
                  THEN Parsed(Dict(<<>>), k + 1)
                  ELSE ParseMembers(s, k, <<>>)
     ELSE IF s[j] = Ch("[")
          THEN LET k == SkipWs(s, j + 1)
               IN IF k <= Len(s) /\ s[k] = Ch("]")
                  THEN Parsed(List(<<>>), k + 1)
                  ELSE ParseElements(s, k, <<>>)
     ELSE IF s[j].c = "str" THEN Parsed(Str(s[j].s), j + 1)
     ELSE IF s[j] = Null THEN Parsed(None, j + 1)
     ELSE IF s[j] = Ch("0") THEN Parsed(Num(0), j + 1)
     ELSE IF s[j] = Ch("1") THEN ParseDigits(s, j, 0)
     ELSE ParseError

\* json.loads(s): one value, then nothing but whitespace
json_loads(s) ==
  LET pv == ParseValue(s, 1)
  IN IF pv.ok /\ SkipWs(s, pv.next) > Len(s)
     THEN [ok |-> TRUE, v |-> pv.v]
     ELSE [ok |-> FALSE, v |-> None]

-----------------------------------------------------------------------------
(* parse_result_to_json.                                                   *)

\* the fence removed without regard to its json tag
UnfenceUntagged(s) ==
  LET a == IF StartsWith(s, Fence) THEN DropFirst(s, 3) ELSE s
      b == IF EndsWith(a, Fence) THEN DropLast(a, 3) ELSE a
  IN Strip(b)

\* the text left of a fenced text once it was stripped
Unfence(s) ==
  LET a == IF StartsWith(s, FenceJson) THEN DropFirst(s, 7)
           ELSE IF StartsWith(s, Fence) THEN DropFirst(s, 3)
           ELSE s
      b == IF EndsWith(a, Fence) THEN DropLast(a, 3) ELSE a
  IN Strip(b)

\* the text that reaches json.loads
StripFence(json_text) ==
  IF StartsWith(Strip(json_text), Fence) THEN Unfence(Strip(json_text)) ELSE json_text

\* the except branch: log, report to the telemetry client if there is one,
\* return {}; a telemetry call that raises leaves through the handler
ParseFailed(client, telemetry_ok) ==
  IF client /\ ~telemetry_ok
  THEN [raised |-> TRUE, v |-> None]
  ELSE [raised |-> FALSE, v |-> Dict(<<>>)]

parse_result_to_json(json_text, client, telemetry_ok) ==
  LET loaded == json_loads(StripFence(json_text))
  IN IF loaded.ok THEN [raised |-> FALSE, v |-> loaded.v]
     ELSE ParseFailed(client, telemetry_ok)

-----------------------------------------------------------------------------
(* The usage counters and the estimated cost (querymodel).                 *)

Obj(attrs) == [t |-> "obj", v |-> attrs]

\* hasattr(x, name): only the usage object of the model service has attributes
HasAttr(x, name) == x.t = "obj" /\ HasKey(x, name)

\* the rates, in units of 0.0000001 dollar per token, and the number of
\* those units in 0.0001 dollar, the last digit round(_, 4) keeps
RateIn == 25
RateOut == 100
CostUnit == 1000

\* round(n / d), ties to the even neighbour
RoundHalfEven(n, d) ==
  LET q == n \div d
      r == n % d
  IN IF 2 * r < d THEN q
     ELSE IF 2 * r > d THEN q + 1
     ELSE IF q % 2 = 0 THEN q ELSE q + 1

\* total_cost, in units of 0.0001 dollar
Cost(prompt_tokens, completion_tokens) ==
  RoundHalfEven(prompt_tokens * RateIn + completion_tokens * RateOut, CostUnit)

UsageRaised == [raised |-> TRUE, tokens |-> <<0, 0>>, cost |-> 0]
Usage(p, c) == [raised |-> FALSE, tokens |-> <<p, c>>, cost |-> Cost(p, c)]

\* the counters read from a usage object that has a prompt_tokens attribute
ReadCounters(usage) ==
  IF ~HasAttr(usage, "completion_tokens") THEN UsageRaised
  ELSE LET p == Get(usage, "prompt_tokens", None)
           c == Get(usage, "completion_tokens", None)
       IN IF p.t # "num" \/ c.t # "num" THEN UsageRaised ELSE Usage(p.v, c.v)

\* "Extract usage from metadata" to total_cost
ExtractUsage(metadata) ==
  LET md == IF Truthy(metadata) THEN metadata ELSE Dict(<<>>)
  IN IF ~IsDict(md) THEN UsageRaised
     ELSE LET inner0 == Get(md, "metadata", Dict(<<>>))
              inner == IF inner0.t = "list" /\ Len(inner0.v) > 0
                       THEN inner0.v[1] ELSE inner0
              usage == IF IsDict(inner) THEN Get(inner, "usage", None) ELSE None
          IN IF Truthy(usage) /\ HasAttr(usage, "prompt_tokens")
             THEN ReadCounters(usage)
             ELSE Usage(0, 0)

-----------------------------------------------------------------------------
(* send_report: the body of the email.                                     *)

\* the length of a line without the values interpolated into it
StaticLen(line) ==
  CASE line.tag = "error_notice" -> 101
    [] line.tag = "h2_recs" -> 31
    [] line.tag = "hr_h2_analysis" -> 29
    [] line.tag = "ul" -> 4
    [] line.tag = "/ul" -> 5
    [] line.tag = "h3_rec" -> 24
    [] line.tag = "li_rec" -> 35
    [] line.tag = "h3_stock" -> 26
    [] line.tag = "li" -> 9
    [] line.tag = "notes" -> 231

\* len("\n".join(html)) without the interpolated values: the static text and
\* the newlines (the shortest report the renderer returns, the two section
\* headings, has 61 characters)
RECURSIVE TextLen(_)
TextLen(html) ==
  IF html = <<>> THEN 0
  ELSE StaticLen(Head(html)) + (IF Len(html) > 1 THEN 1 ELSE 0) + TextLen(Tail(html))

\* whether the "report may be incomplete" warning is put before the body
EmptyWarning(html_body) == html_body = <<>> \/ TextLen(html_body) < 50

final_html(html_body, counters, cost) ==
  [warning |-> EmptyWarning(html_body), body |-> html_body,
   tokens |-> counters, cost |-> cost]

-----------------------------------------------------------------------------
(* The invocation: daily_review / run_review_http -> run_daily_review ->   *)
(* querymodel -> send_report.  pc names the statement that runs next.      *)

Exc(type, at) == [type |-> type, at |-> at]
NoExc == Exc("none", "none")

NoResult == [value |-> [kind |-> "none", parts |-> <<>>], metadata |-> None]
NoResponse == [status |-> 0, error |-> NoExc]
NoCalls == [load |-> 0, model |-> 0, parse |-> 0, render |-> 0, email |-> 0]

\* a telemetry call is made only if a client exists; it returns or raises
TelemetryOutcomes == IF telemetry_client THEN BOOLEAN ELSE {TRUE}

\* where an exception that leaves run_daily_review arrives: the except
\* clause of run_review_http, or the platform (daily_review catches nothing)
AdapterCatch == IF trigger = "http" THEN "http_except" ELSE "escaped"

\* an exception of this type is raised by the statement at pc
Raise(type, handler) ==
  /\ exc' = Exc(type, pc)
  /\ pc' = handler
  /\ stage' = "Failed"

\* a block of telemetry calls, caught (if one raises) at `handler`
TelemetryBlock(next, handler) ==
  /\ \E ok \in TelemetryOutcomes :
       IF ok THEN pc' = next /\ UNCHANGED <<exc, stage>>
             ELSE Raise("TelemetryError", handler)
  /\ UNCHANGED <<trigger, is_dev, telemetry_client, result, output_json,
                 parsed_json, output_html, tokens, total_cost, calls, outbox,
                 response>>

\* an except clause that reports to telemetry and re-raises: the exception
\* that leaves is the one caught, or the one a telemetry call raised
Reraise(handler) ==
  /\ \E ok \in TelemetryOutcomes :
       exc' = IF ok THEN exc ELSE Exc("TelemetryError", pc)
  /\ pc' = handler
  /\ stage' = "Failed"
  /\ UNCHANGED <<trigger, is_dev, telemetry_client, result, output_json,
                 parsed_json, output_html, tokens, total_cost, calls, outbox,
                 response>>

\* daily_review / run_review_http up to the call of run_daily_review
TriggerFired ==
  /\ pc = "trigger"
  /\ TelemetryBlock("rdr_start", "escaped")

\* run_daily_review: the event tracked before its try
DailyReviewStarted ==
  /\ pc = "rdr_start"
  /\ TelemetryBlock("qm_start", AdapterCatch)

\* querymodel: the event tracked before its try
QueryModelStarted ==
  /\ pc = "qm_start"
  /\ TelemetryBlock("load", "rdr_except")

\* load_portfolio(): the file or the blob is read, or the read raises
LoadPortfolio ==
  /\ pc = "load"
  /\ calls' = [calls EXCEPT !.load = @ + 1]
  /\ \/ pc' = "prompt" /\ stage' = "PortfolioLoaded" /\ UNCHANGED exc
     \/ Raise("DataSourceError", "qm_except")
  /\ UNCHANGED <<trigger, is_dev, telemetry_client, result, output_json,
                 parsed_json, output_html, tokens, total_cost, outbox, response>>

\* portfolio_to_tsv, the prompt template, html.escape
BuildPrompt ==
  /\ pc = "prompt"
  /\ pc' = "invoke"
  /\ stage' = "PromptBuilt"
  /\ UNCHANGED <<trigger, is_dev, telemetry_client, result, output_json,
                 parsed_json, output_html, tokens, total_cost, exc, calls,
                 outbox, response>>

-----------------------------------------------------------------------------
(* What the remote model service can answer: the texts and the usage       *)
(* reports the invocation is run against.                                  *)

\* the token counts a usage report carries: 0, 1000, ... MaxTokenSteps * 1000
MaxTokenSteps == 2
TokenCounts == {k * 1000 : k \in 0..MaxTokenSteps}

Newline == <<Ch("\n")>>

\* {"symbol": "s<i>", "company": "c<i>", "reason": "r<i>"} as text
SymbolName(i) == <<"s1", "s2">>[i]
CompanyName(i) == <<"c1", "c2">>[i]
ReasonName(i) == <<"r1", "r2">>[i]
RecText(i) ==
  << Ch("{"), Lit("symbol"), Ch(":"), Lit(SymbolName(i)), Ch(","),
     Lit("company"), Ch(":"), Lit(CompanyName(i)), Ch(","),
     Lit("reason"), Ch(":"), Lit(ReasonName(i)), Ch("}") >>

NotJsonText == Cs(<<"n", "o", "t", " ", "j", "s", "o", "n">>)
BlankText == Cs(<<" ", "\n">>)
EmptyObjectText == Cs(<<"{", "}">>)
NotesOnlyText == <<Ch("{"), Lit("notes"), Ch(":"), Lit("x"), Ch("}")>>
NullRecommendationsText ==
  <<Ch("{"), Lit("recommendations"), Ch(":"), Null, Ch("}")>>
NullAnalysisText == <<Ch("{"), Lit("analysis"), Ch(":"), Null, Ch("}")>>
ReportText ==
  << Ch("{"), Lit("recommendations"), Ch(":"), Ch("{"),
       Lit("buy"), Ch(":"), Ch("[") >> \o RecText(1) \o <<Ch(",")>> \o RecText(2)
  \o << Ch("]"), Ch(","), Lit("hold"), Ch(":"), Ch("["), Ch("]"), Ch("}"), Ch(","),
        Lit("notes"), Ch(":"), Lit("x"), Ch(","),
        Lit("analysis"), Ch(":"), Ch("["), Ch("{"),
          Lit("symbol"), Ch(":"), Lit("s1"), Ch(","),
          Lit("company"), Ch(":"), Lit("c1"), Ch(","),
          Lit("highlights"), Ch(":"), Ch("["), Lit("x"), Ch(","), Lit("ab"), Ch("]"),
        Ch("}"), Ch("]"), Ch("}") >>

\* result.value: a str, or chunks whose contents are joined
StrValue(text) == [kind |-> "str", parts |-> <<text>>]
ChunksValue(parts) == [kind |-> "chunks", parts |-> parts]

ModelValues ==
  { StrValue(NotJsonText), StrValue(BlankText), StrValue(EmptyObjectText),
    StrValue(NotesOnlyText), StrValue(NullRecommendationsText),
    StrValue(NullAnalysisText), StrValue(ReportText),
    ChunksValue(<<FenceJson \o Newline, ReportText, Newline \o Fence>>),
    ChunksValue(<<Fence, NotJsonText, Fence>>) }

\* a usage object with the given attributes
UsageObject(attrs) == Obj(attrs)
Counters(p, c) ==
  UsageObject(<<Pair("prompt_tokens", p), Pair("completion_tokens", c)>>)

\* result.metadata with this value under "metadata"
Metadata(inner) == Dict(<<Pair("metadata", inner)>>)
WithUsage(usage) == Dict(<<Pair("usage", usage)>>)

ModelMetadata ==
  { None, Dict(<<>>), Dict(<<Pair("id", Str("x"))>>),
    Metadata(List(<<>>)), Metadata(List(<<Str("x")>>)),
    Metadata(Dict(<<>>)), Metadata(List(<<Dict(<<>>)>>)),
    Metadata(WithUsage(None)), Metadata(List(<<WithUsage(None)>>)),
    Metadata(WithUsage(UsageObject(<<>>))),
    Metadata(List(<<WithUsage(UsageObject(<<Pair("prompt_tokens", Num(1000))>>))>>)),
    Metadata(List(<<WithUsage(Counters(None, None))>>)),
    Metadata(List(<<WithUsage(Counters(Num(1000), None))>>)) }
  \cup { Metadata(List(<<WithUsage(Counters(Num(p), Num(c)))>>)) :
           p \in TokenCounts, c \in TokenCounts }
  \cup { Metadata(WithUsage(Counters(Num(p), Num(c)))) :
           p \in TokenCounts, c \in TokenCounts }

ModelResults == [value : ModelValues, metadata : ModelMetadata]

\* the response text: result.value itself, or its chunks joined
OutputJson(value) == Concat(value.parts)

-----------------------------------------------------------------------------
(* querymodel, from the model call to its return.                          *)

\* Kernel, AzureChatCompletion, kernel.invoke_prompt and the read of
\* result.value: the service answers, or the call raises
InvokeModel ==
  /\ pc = "invoke"
  /\ calls' = [calls EXCEPT !.model = @ + 1]
  /\ \/ \E r \in ModelResults :
          /\ result' = r
          /\ output_json' = OutputJson(r.value)
          /\ pc' = "track_response"
          /\ stage' = "ModelInvoked"
          /\ UNCHANGED exc
     \/ /\ Raise("ModelCallError", "qm_except")
        /\ UNCHANGED <<result, output_json>>
  /\ UNCHANGED <<trigger, is_dev, telemetry_client, parsed_json, output_html,
                 tokens, total_cost, outbox, response>>

\* the ModelResponseReceived event
TrackResponse ==
  /\ pc = "track_response"
  /\ TelemetryBlock("parse", "qm_except")

\* parsed_json = parse_result_to_json(output_json)
ParseResponse ==
  /\ pc = "parse"
  /\ calls' = [calls EXCEPT !.parse = @ + 1]
  /\ \E ok \in TelemetryOutcomes :
       LET r == parse_result_to_json(output_json, telemetry_client, ok)
       IN IF r.raised
          THEN Raise("TelemetryError", "qm_except") /\ UNCHANGED parsed_json
          ELSE /\ parsed_json' = r.v
               /\ pc' = "render"
               /\ stage' = "ResponseParsed"
               /\ UNCHANGED exc
  /\ UNCHANGED <<trigger, is_dev, telemetry_client, result, output_json,
                 output_html, tokens, total_cost, outbox, response>>

\* output_html = render_html_report(parsed_json)
RenderReport ==
  /\ pc = "render"
  /\ calls' = [calls EXCEPT !.render = @ + 1]
  /\ LET r == render_html_report(parsed_json)
     IN IF r.raised
        THEN Raise("RenderError", "qm_except") /\ UNCHANGED output_html
        ELSE /\ output_html' = r.html
             /\ pc' = "usage"
             /\ stage' = "ReportRendered"
             /\ UNCHANGED exc
  /\ UNCHANGED <<trigger, is_dev, telemetry_client, result, output_json,
                 parsed_json, tokens, total_cost, outbox, response>>

\* the usage counters and total_cost
ComputeCost ==
  /\ pc = "usage"
  /\ LET u == ExtractUsage(result.metadata)
     IN IF u.raised
        THEN Raise("UsageError", "qm_except") /\ UNCHANGED <<tokens, total_cost>>
        ELSE /\ tokens' = u.tokens
             /\ total_cost' = u.cost
             /\ pc' = "qm_metrics"
             /\ UNCHANGED <<exc, stage>>
  /\ UNCHANGED <<trigger, is_dev, telemetry_client, result, output_json,
                 parsed_json, output_html, calls, outbox, response>>

\* the metrics and the QueryModelCompleted event, then the return
QueryModelMetrics ==
  /\ pc = "qm_metrics"
  /\ TelemetryBlock("send_start", "qm_except")

\* an except clause that runs the query again instead of raising
QueryModelExceptRetry ==
  /\ pc = "qm_except"
  /\ pc' = "load"
  /\ UNCHANGED <<stage, trigger, is_dev, telemetry_client, result, output_json,
                 parsed_json, output_html, tokens, total_cost, exc, calls, outbox,
                 response>>

\* except Exception in querymodel: log, report, raise
QueryModelExcept ==
  /\ pc = "qm_except"
  /\ Reraise("rdr_except")

-----------------------------------------------------------------------------
(* send_report, the end of run_daily_review, and the two adapters.         *)

\* the SendReportStarted event, tracked before the try of send_report
SendReportStarted ==
  /\ pc = "send_start"
  /\ TelemetryBlock("send", "rdr_except")

\* the environment lookups, the message, begin_send and poller.result():
\* the delivery service accepts the email, or the send raises
SendEmail ==
  /\ pc = "send"
  /\ calls' = [calls EXCEPT !.email = @ + 1]
  /\ \/ /\ outbox' = Append(outbox, final_html(output_html, tokens, total_cost))
        /\ pc' = "send_metrics"
        /\ stage' = "EmailSent"
        /\ UNCHANGED exc
     \/ /\ Raise("DeliveryError", "send_except")
        /\ UNCHANGED outbox
  /\ UNCHANGED <<trigger, is_dev, telemetry_client, result, output_json,
                 parsed_json, output_html, tokens, total_cost, response>>

\* the EmailSendDuration metric and the EmailSent event, inside the try
SendMetrics ==
  /\ pc = "send_metrics"
  /\ TelemetryBlock("rdr_completed", "send_except")

\* except Exception in send_report: log, report, raise
SendReportExcept ==
  /\ pc = "send_except"
  /\ Reraise("rdr_except")

\* the DailyReviewCompleted event, inside the try of run_daily_review
DailyReviewCompleted ==
  /\ pc = "rdr_completed"
  /\ TelemetryBlock("rdr_exit", "rdr_except")

\* if is_dev: os._exit(0) ends the process; otherwise run_daily_review
\* returns to the adapter that called it
ExitOrReturn ==
  /\ pc = "rdr_exit"
  /\ stage' = "Done"
  /\ pc' = IF is_dev THEN "exited"
           ELSE IF trigger = "http" THEN "http_metrics" ELSE "returned"
  /\ UNCHANGED <<trigger, is_dev, telemetry_client, result, output_json,
                 parsed_json, output_html, tokens, total_cost, exc, calls,
                 outbox, response>>

\* except Exception in run_daily_review: report, raise to the adapter
DailyReviewExcept ==
  /\ pc = "rdr_except"
  /\ Reraise(AdapterCatch)

\* run_review_http after run_daily_review returned: the success metrics
\* (inside the try), then the 200 response
HttpSucceeded ==
  /\ pc = "http_metrics"
  /\ \E ok \in TelemetryOutcomes :
       IF ok
       THEN /\ response' = [status |-> 200, error |-> NoExc]
            /\ pc' = "returned"
            /\ UNCHANGED exc
       ELSE /\ exc' = Exc("TelemetryError", pc)
            /\ pc' = "http_except"
            /\ UNCHANGED response
  /\ UNCHANGED <<stage, trigger, is_dev, telemetry_client, result, output_json,
                 parsed_json, output_html, tokens, total_cost, calls, outbox>>

\* except Exception in run_review_http: the failure events, then the 500
\* response with the text of the exception caught; a telemetry call that
\* raises here leaves the adapter
HttpExcept ==
  /\ pc = "http_except"
  /\ \E ok \in TelemetryOutcomes :
       IF ok
       THEN /\ response' = [status |-> 500, error |-> exc]
            /\ pc' = "returned"
            /\ UNCHANGED exc
       ELSE /\ exc' = Exc("TelemetryError", pc)
            /\ pc' = "escaped"
            /\ UNCHANGED response
  /\ UNCHANGED <<stage, trigger, is_dev, telemetry_client, result, output_json,
                 parsed_json, output_html, tokens, total_cost, calls, outbox>>

-----------------------------------------------------------------------------
(* The invocation as a whole.                                              *)

Init ==
  /\ pc = "trigger"
  /\ stage = "Start"
  /\ trigger \in {"http", "timer"}
  /\ is_dev \in BOOLEAN
  /\ telemetry_client \in BOOLEAN
  /\ result = NoResult
  /\ output_json = <<>>
  /\ parsed_json = None
  /\ output_html = <<>>
  /\ tokens = <<0, 0>>
  /\ total_cost = 0
  /\ exc = NoExc
  /\ calls = NoCalls
  /\ outbox = <<>>
  /\ response = NoResponse

Next ==
  \/ TriggerFired
  \/ DailyReviewStarted
  \/ QueryModelStarted
  \/ LoadPortfolio
  \/ BuildPrompt
  \/ InvokeModel
  \/ TrackResponse
  \/ ParseResponse
  \/ RenderReport
  \/ ComputeCost
  \/ QueryModelMetrics
  \/ QueryModelExcept
  \/ SendReportStarted
  \/ SendEmail
  \/ SendMetrics
  \/ SendReportExcept
  \/ DailyReviewCompleted
  \/ ExitOrReturn
  \/ DailyReviewExcept
  \/ HttpSucceeded
  \/ HttpExcept

Spec == Init /\ [][Next]_vars

\* the invocation is over: the adapter returned, an exception left it, or
\* os._exit ended the process
Ended == pc \in {"returned", "escaped", "exited"}

-----------------------------------------------------------------------------
(* render_html_report on its own: the values it is called with.            *)

\* the longest list of recommendations of a category
MaxItems == 2

RecIds == {1, 2}
Rec(i) ==
  Dict(<< Pair("symbol", Str(SymbolName(i))), Pair("company", Str(CompanyName(i))),
          Pair("reason", Str(ReasonName(i))) >>)

\* the lists of up to MaxItems recommendation entries
ItemLists ==
  UNION { { [i \in 1..n |-> Rec(f[i])] : f \in [1..n -> RecIds] } : n \in 0..MaxItems }

Reverse(s) == [i \in 1..Len(s) |-> s[Len(s) + 1 - i]]

\* the orders in which the categories can come in the input
KeyOrders == { <<"buy", "buy-new", "hold", "sell">>, <<"sell", "hold", "buy-new", "buy">>,
               <<"hold", "buy", "sell", "buy-new">> }

\* a category is missing, or has the empty list, or a list, or that list reversed
CategoryShapes == {"missing", "empty", "list", "reversed"}

RECURSIVE RecommendationPairs(_, _, _)
RecommendationPairs(order, shape, items) ==
  IF order = <<>> THEN <<>>
  ELSE LET k == Head(order)
           rest == RecommendationPairs(Tail(order), shape, items)
       IN CASE shape[k] = "missing" -> rest
            [] shape[k] = "empty" -> <<Pair(k, List(<<>>))>> \o rest
            [] shape[k] = "list" -> <<Pair(k, List(items))>> \o rest
            [] shape[k] = "reversed" -> <<Pair(k, List(Reverse(items)))>> \o rest

Stock(i, highlights) ==
  Dict(<< Pair("symbol", Str(SymbolName(i))), Pair("company", Str(CompanyName(i))),
          Pair("highlights", highlights) >>)

\* the analysis and notes fields of a well-formed object (<<>>: none)
WellFormedTails ==
  { <<>>,
    <<Pair("notes", Str("x"))>>,
    <<Pair("notes", Str("")), Pair("analysis", List(<<>>))>>,
    <<Pair("analysis", List(<<Stock(1, List(<<Str("x"), Str("ab")>>))>>))>>,
    <<Pair("notes", Str("x")),
      Pair("analysis", List(<<Stock(1, List(<<>>)),
                              Dict(<<Pair("symbol", Str("s2"))>>)>>))>> }

\* the objects that match the schema of the prompt
WellFormedObjects ==
  { Dict(<<Pair("recommendations", Dict(RecommendationPairs(order, shape, items)))>>
         \o tail) :
      order \in KeyOrders, shape \in [{"buy", "buy-new", "hold", "sell"} -> CategoryShapes],
      items \in ItemLists \ {<<>>}, tail \in WellFormedTails }
  \cup { Dict(tail) : tail \in WellFormedTails }

\* the values that are empty or no object at all
NonObjects ==
  { None, Str(""), Str("x"), Num(0), Num(1), List(<<>>), List(<<Num(1)>>),
    List(<<Dict(<<Pair("notes", Str("x"))>>)>>) }

\* values of the wrong type in the place of a field
Misfits ==
  { None, Str(""), Str("x"), Num(0), Num(1), List(<<>>), List(<<None>>),
    List(<<Str("x")>>), List(<<Num(1)>>), Dict(<<>>), Dict(<<Pair("x", None)>>) }

\* objects with one field, or one part of a field, of the wrong type
IllTypedObjects ==
  { Dict(<<Pair(k, m)>>) : k \in {"recommendations", "analysis", "notes"}, m \in Misfits }
  \cup { Dict(<<Pair("recommendations", Dict(<<Pair(c, m)>>))>>) :
           c \in {"buy", "buy-new", "hold", "sell"}, m \in Misfits }
  \cup { Dict(<<Pair("recommendations", Dict(<<Pair("buy", List(<<Rec(1)>>))>>)),
                Pair("analysis", List(<<Stock(1, m)>>))>>) : m \in Misfits }

RenderInputs == WellFormedObjects \cup NonObjects \cup IllTypedObjects

\* the state in which querymodel is about to call render_html_report(data)
AtRender(data) ==
  /\ pc = "render"
  /\ stage = "ResponseParsed"
  /\ trigger = "http"
  /\ is_dev = FALSE
  /\ telemetry_client = FALSE
  /\ result = NoResult
  /\ output_json = <<>>
  /\ parsed_json = data
  /\ output_html = <<>>
  /\ tokens = <<0, 0>>
  /\ total_cost = 0
  /\ exc = NoExc
  /\ calls = NoCalls
  /\ outbox = <<>>
  /\ response = NoResponse

InitRender == \E data \in RenderInputs : AtRender(data)

SpecRender == InitRender /\ [][RenderReport]_vars

-----------------------------------------------------------------------------
(* parse_result_to_json on its own: the texts it is called with.           *)

\* the longest text between the fences
MaxLen == 3

Alphabet == { Backtick, Ch(" "), Ch("{"), Ch("}"), Ch("["), Ch("]"), Ch("1"), Lit("x") }

BoundedTexts == UNION { [1..n -> Alphabet] : n \in 0..MaxLen }

Texts ==
  BoundedTexts \cup { NotJsonText, BlankText, NotesOnlyText, NullRecommendationsText,
                      ReportText }

\* what precedes and what follows the text: nothing, a fence with or
\* without the json tag and blanks or newlines around it, a broken fence
Leading ==
  { <<>>, Fence, FenceJson, FenceJson \o Newline, <<Ch(" ")>> \o FenceJson \o Newline,
    Newline \o Fence \o <<Ch(" ")>>, <<Backtick, Backtick>> }
Trailing ==
  { <<>>, Fence, Newline \o Fence, <<Ch(" ")>> \o Fence \o Newline, <<Backtick>> }

\* the state in which querymodel is about to call parse_result_to_json on
\* the text made of the three parts
AtParse(client, parts) ==
  /\ pc = "parse"
  /\ stage = "ModelInvoked"
  /\ trigger = "http"
  /\ is_dev = FALSE
  /\ telemetry_client = client
  /\ result = [value |-> ChunksValue(parts), metadata |-> None]
  /\ output_json = OutputJson(ChunksValue(parts))
  /\ parsed_json = None
  /\ output_html = <<>>
  /\ tokens = <<0, 0>>
  /\ total_cost = 0
  /\ exc = NoExc
  /\ calls = NoCalls
  /\ outbox = <<>>
  /\ response = NoResponse

InitParse ==
  \E client \in BOOLEAN, lead \in Leading, text \in Texts, trail \in Trailing :
    AtParse(client, <<lead, text, trail>>)

SpecParse == InitParse /\ [][ParseResponse]_vars

-----------------------------------------------------------------------------
(* The claims.                                                             *)

\* the value is an object with at least one key
NonEmptyObject(x) == x.t = "dict" /\ x.v # <<>>

\* the text that json.loads is given is no JSON text
Malformed(text) == ~json_loads(StripFence(text)).ok

\* C1: render_html_report never raises, whatever parse_result_to_json
\* returned, and the run never fails because of rendering.
C1_RenderNeverRaises == exc # Exc("RenderError", "render")

\* C2: parse_result_to_json always returns a value, with or without a
\* telemetry client and whether or not its calls succeed, and returns the
\* empty object whenever the fence-stripped text is not valid JSON.
C2_ParseNeverRaises ==
  pc # "parse" =>
    /\ exc = NoExc
    /\ Malformed(output_json) => parsed_json = Dict(<<>>)

\* C3: a parse error never fails the run: when the model's text is malformed
\* the parse step hands the empty object to the renderer and the run goes on
\* (this is the part of the claim about the parse step itself; with the
\* load, the model call and the send succeeding the claim promises Done).
C3_ParseErrorRecovered ==
  (result.value.kind # "none" /\ Malformed(output_json)) =>
    /\ ~(stage = "Failed" /\ exc.at = "parse")
    /\ pc \in {"render", "usage"} => parsed_json = Dict(<<>>)
    /\ outbox # <<>> => outbox[1].body = <<ErrorNotice>>

\* C4: every invocation of run_review_http ends by returning one response,
\* in Development and in Production: 200 if the run completed, 500 with the
\* exception of the failed step otherwise; no exception leaves the adapter.
\* Stated for the configuration without a telemetry client, where the only
\* steps that can fail are the ones the claim lists.
C4_HttpAlwaysResponds ==
  (trigger = "http" /\ ~telemetry_client /\ Ended) =>
    /\ pc = "returned"
    /\ \/ response.status = 200 /\ stage = "Done" /\ outbox # <<>>
       \/ response.status = 500 /\ stage = "Failed" /\ response.error = exc

\* C5: a failed run (run_daily_review raised, the HTTP adapter answered
\* 500, or the invocation failed) has sent no email.
C5_FailedRunSentNothing ==
  (stage = "Failed" \/ response.status = 500 \/ pc = "escaped") => outbox = <<>>

\* the stages of a run, in order
StageOrder ==
  << "Start", "PortfolioLoaded", "PromptBuilt", "ModelInvoked", "ResponseParsed",
     "ReportRendered", "EmailSent", "Done" >>
Follows(a, b) == \E i \in 1..(Len(StageOrder) - 1) : StageOrder[i] = a /\ StageOrder[i + 1] = b

\* C6: the stages of a run follow Start -> PortfolioLoaded -> PromptBuilt ->
\* ModelInvoked -> ResponseParsed -> ReportRendered -> EmailSent -> Done, with
\* Failed the only other way out and both Done and Failed final; the model
\* service and the email service are each invoked at most once; the send
\* starts only once the report of the run is rendered; nothing runs again
\* after a failure.
C6_StepOrder ==
  /\ [][stage' # stage =>
          \/ Follows(stage, stage')
          \/ stage' = "Failed" /\ stage # "Done"]_vars
  /\ [][calls'.email > calls.email =>
          stage = "ReportRendered" /\ calls.model = 1 /\ calls.parse = 1
          /\ calls.render = 1]_vars
  /\ [][stage = "Failed" => calls' = calls /\ outbox' = outbox]_vars
  /\ [](calls.load <= 1 /\ calls.model <= 1 /\ calls.email <= 1 /\ Len(outbox) <= 1)

C6_Witness ==
  /\ stage = "Done"
  /\ calls = [load |-> 1, model |-> 1, parse |-> 1, render |-> 1, email |-> 1]
  /\ Len(outbox) = 1

\* the objects that match the schema of the prompt
IsText(x) == x.t = "str"
IsEntry(x) ==
  /\ IsDict(x)
  /\ \A i \in 1..Len(x.v) : x.v[i].k \in {"symbol", "company", "reason"} /\ IsText(x.v[i].v)
  /\ \A k \in {"symbol", "company", "reason"} : HasKey(x, k)
IsEntryList(x) == x.t = "list" /\ \A i \in 1..Len(x.v) : IsEntry(x.v[i])
IsStock(x) ==
  /\ IsDict(x)
  /\ \A i \in 1..Len(x.v) :
       \/ x.v[i].k \in {"symbol", "company"} /\ IsText(x.v[i].v)
       \/ /\ x.v[i].k = "highlights"
          /\ x.v[i].v.t = "list"
          /\ \A j \in 1..Len(x.v[i].v.v) : IsText(x.v[i].v.v[j])
WellFormed(x) ==
  /\ IsDict(x)
  /\ \A i \in 1..Len(x.v) :
       \/ /\ x.v[i].k = "recommendations"
          /\ IsDict(x.v[i].v)
          /\ \A j \in 1..Len(x.v[i].v.v) :
               /\ x.v[i].v.v[j].k \in {"buy", "buy-new", "hold", "sell"}
               /\ IsEntryList(x.v[i].v.v[j].v)
       \/ /\ x.v[i].k = "analysis"
          /\ x.v[i].v.t = "list"
          /\ \A j \in 1..Len(x.v[i].v.v) : IsStock(x.v[i].v.v[j])
       \/ x.v[i].k = "notes" /\ IsText(x.v[i].v)
\* the entries of a category in the input; none if the category is missing
EntriesOf(x, category) ==
  IF HasKey(x, "recommendations") /\ HasKey(Get(x, "recommendations", None), category)
  THEN Get(Get(x, "recommendations", None), category, None).v
  ELSE <<>>
HeadingOf(category) ==
  LET a == ActionTable[CHOOSE i \in 1..Len(ActionTable) : ActionTable[i].action = category]
  IN Line("h3_rec", <<Str(a.color), Str(a.label)>>)
ItemOf(entry) ==
  Line("li_rec", <<Get(entry, "company", None), Get(entry, "symbol", None),
                   Get(entry, "reason", None)>>)
SubsectionOf(x, category) ==
  LET entries == EntriesOf(x, category)
  IN IF entries = <<>> THEN <<>>
     ELSE <<HeadingOf(category), UlOpen>>
          \o [i \in 1..Len(entries) |-> ItemOf(entries[i])] \o <<UlClose>>
\* the lines between the heading of the recommendations and that of the analysis
RecommendationSection(html) ==
  SubSeq(html, 2, (CHOOSE i \in 1..Len(html) : html[i] = AnalysisHeading) - 1)

\* C7: for a well-formed object the recommendations section holds exactly
\* one subsection per category with a non-empty list, in the order buy,
\* buy-new, sell, hold whatever the order of the keys in the input, and each
\* subsection holds one item per entry of its list, in the order of the list.
C7_SubsectionsInFixedOrder ==
  (pc # "render" /\ WellFormed(parsed_json)) =>
    /\ exc = NoExc
    /\ IF NonEmptyObject(parsed_json)
       THEN /\ output_html[1] = RecsHeading
            /\ RecommendationSection(output_html) =
                 SubsectionOf(parsed_json, "buy") \o SubsectionOf(parsed_json, "buy-new")
                 \o SubsectionOf(parsed_json, "sell") \o SubsectionOf(parsed_json, "hold")
       ELSE \A i \in 1..Len(output_html) : output_html[i].tag \notin {"h3_rec", "li_rec"}

C7_Witness ==
  /\ pc = "usage"
  /\ WellFormed(parsed_json)
  /\ HasKey(parsed_json, "recommendations")
  /\ LET recs == Get(parsed_json, "recommendations", None)
     IN /\ Len(recs.v) = 3
        /\ recs.v[1].k = "sell" /\ recs.v[1].v = List(<<Rec(2), Rec(1)>>)
        /\ recs.v[2].k = "hold" /\ recs.v[2].v = List(<<>>)
        /\ recs.v[3].k = "buy" /\ recs.v[3].v = List(<<Rec(1), Rec(2)>>)
  /\ Len(SelectSeq(output_html, LAMBDA l : l.tag = "h3_rec")) = 2
  /\ Len(SelectSeq(output_html, LAMBDA l : l.tag = "li_rec")) = 4

\* C8: for an input that is empty or no object the report is the error
\* notice and nothing else, and nothing is raised; for a non-empty object
\* the error notice is not emitted.
C8_ErrorNoticeOnly ==
  pc # "render" =>
    IF NonEmptyObject(parsed_json)
    THEN \A i \in 1..Len(output_html) : output_html[i] # ErrorNotice
    ELSE exc = NoExc /\ output_html = <<ErrorNotice>>

C8_Witness ==
  /\ pc = "usage"
  /\ parsed_json = Dict(<<>>)
  /\ output_html = <<ErrorNotice>>

\* a fence, possibly with blanks or newlines around it
IsLeadingFence(s) == Strip(s) \in {Fence, FenceJson}
IsTrailingFence(s) == Strip(s) = Fence

\* C9: a valid JSON text t between a leading fence (with or without the json
\* tag) and a trailing fence, with blanks or newlines around them, parses to
\* what t alone parses to; exactly the fences and the blanks are removed.
C9_FenceRoundTrip ==
  LET parts == result.value.parts
  IN (/\ pc # "parse"
      /\ IsLeadingFence(parts[1])
      /\ IsTrailingFence(parts[3])
      /\ json_loads(parts[2]).ok) =>
       /\ exc = NoExc
       /\ parsed_json = parse_result_to_json(parts[2], telemetry_client, TRUE).v
       /\ StripFence(output_json) = Strip(parts[2])

C9_Witness ==
  /\ pc = "render"
  /\ result.value.parts = <<<<Ch(" ")>> \o FenceJson \o Newline,
                            <<Ch("["), Ch("1"), Ch("]")>>,
                            <<Ch(" ")>> \o Fence \o Newline>>
  /\ parsed_json = List(<<Num(1)>>)

\* the usage report carries both counters as numbers
HasCounters(metadata) ==
  \E p \in TokenCounts, c \in TokenCounts :
    metadata \in { Metadata(WithUsage(Counters(Num(p), Num(c)))),
                   Metadata(List(<<WithUsage(Counters(Num(p), Num(c)))>>)) }

\* C10: whatever the shape of the metadata of the model result, the usage
\* step does not raise: where no usable counters are reported both counters
\* and the cost are 0, and the run does not fail at the usage step.
C10_UsageTolerant ==
  /\ exc # Exc("UsageError", "usage")
  /\ (pc = "qm_metrics" /\ ~HasCounters(result.metadata)) =>
       tokens = <<0, 0>> /\ total_cost = 0

====
